---- MODULE Spec2Model ----
(***************************************************************************)
(* A model of the wgpu-test engine: the light buffer manager (light.rs)    *)
(* and the two camera controllers (camera.rs).                             *)
(*                                                                         *)
(* f32 values are fixed-point integers: a value v stands for v / Q.        *)
(* Angles (Rad<f32>) are integers in units of 1 / AQ radian, fine enough   *)
(* to tell FRAC_PI_2 from SAFE_FRAC_PI_2.                                  *)
(***************************************************************************)
EXTENDS Integers, Sequences, FiniteSets, TLC

VARIABLES
    \* ---- LightBufferManager (light.rs) ----
    light_buffer,      \* GPU buffer: word index -> 32-bit word, zero words left out
    counts,            \* ambient_count, directional_count, point_count, spot_count
    queue_writes,      \* the write_buffer calls issued by the most recent call
    last_call,         \* the most recent call and its arguments
    prev_buffer,       \* light_buffer as it was before the most recent call
    synced_counts,     \* counts as they were at the most recent update_light_counts
    validation_error,  \* the backend refused a write that overruns the buffer
    light_ops,         \* number of calls made so far
    \* ---- the camera (camera.rs): one of the two implementations of Camera ----
    camera_variant,    \* "FPSCamera" or "PerspectiveCamera": the one that is driven
    \* ---- FPSCamera (camera.rs) ----
    fps,               \* the FPSCamera's fields
    fps_prev,          \* the FPSCamera before the most recent call
    fps_call,          \* the most recent call on the FPSCamera
    fps_call_before,   \* the call before the most recent one
    fps_ops,           \* number of calls made so far
    fps_pending,       \* sums of the mouse and scroll deltas received since the last update
    fps_consumed,      \* fps_pending as it was at the most recent update
    fps_keys,          \* per intent, the state of the most recent event on a key bound to it
    \* ---- PerspectiveCamera (camera.rs) ----
    orbit,             \* the PerspectiveCamera's fields
    orbit_prev,        \* the PerspectiveCamera before the most recent call
    orbit_call,        \* the most recent call on the PerspectiveCamera
    orbit_init,        \* the PerspectiveCamera as constructed
    only_forward,      \* no call so far but forward key presses and updates
    orbit_ops,         \* number of calls made so far
    orbit_keys,        \* per intent, the state of the most recent event on a key bound to it
    \* ---- the frame loop (lib.rs) and the Renderer (renderer.rs) ----
    renderer,          \* the Renderer's fields, but for its camera (that is fps)
    renderer_prev,     \* renderer as it was before the most recent event
    aspect_prev,       \* the camera's projection aspect before the most recent event
    control_flow,      \* the event loop's ControlFlow after the most recent event
    loop_phase,        \* where the event loop is in its iteration
    frame_call,        \* the most recent event handled and the calls its handler made
    frame_outcomes,    \* the results of render(), one per redraw so far
    exit_by,           \* the event whose handling first set the control flow to Exit
    frame_events,      \* number of events handled so far
    queued_events,     \* number of window and device events handled in this iteration
    \* ---- Geometry (geometry.rs) ----
    geo_input,         \* the arguments the mesh is generated from
    geo_call,          \* the function that generated the mesh: "none", "plane" or "cube"
    mesh               \* the Geometry returned

light_vars == <<light_buffer, counts, queue_writes, last_call, prev_buffer,
                synced_counts, validation_error, light_ops>>
fps_vars == <<camera_variant, fps, fps_prev, fps_call, fps_call_before, fps_ops,
              fps_pending, fps_consumed, fps_keys>>
orbit_vars == <<orbit, orbit_prev, orbit_call, orbit_init, only_forward, orbit_ops,
                orbit_keys>>
frame_vars == <<renderer, renderer_prev, aspect_prev, control_flow, loop_phase,
                frame_call, frame_outcomes, exit_by, frame_events, queued_events>>
geo_vars == <<geo_input, geo_call, mesh>>
vars == <<light_vars, fps_vars, orbit_vars, frame_vars, geo_vars>>

(***************************************************************************)
(* Fixed-point arithmetic                                                  *)
(***************************************************************************)
\* one unit of an f32 value
Q == 10 * 10 * 10
\* one radian in angle units
AQ == 10 * Q

Abs(x) == IF x < 0 THEN -x ELSE x
Sgn(x) == IF x < 0 THEN -1 ELSE IF x > 0 THEN 1 ELSE 0

\* a * b / d rounded towards zero, without forming a product beyond 32 bits
MulDiv(a, b, d) ==
    LET aa == Abs(a)
        bb == Abs(b)
        dd == Abs(d)
        hi == aa \div dd
        lo == aa % dd
    IN  Sgn(a) * Sgn(b) * Sgn(d) * (hi * bb + (lo * bb) \div dd)

\* f32 product
FMul(a, b) == MulDiv(a, b, Q)
\* f32 quotient (b # 0)
FDiv(a, b) == MulDiv(a, Q, b)

RECURSIVE SqrtIter(_, _, _)
SqrtIter(n, lo, hi) ==
    IF lo >= hi THEN lo
    ELSE LET mid == (lo + hi + 1) \div 2
         IN  IF mid <= n \div mid THEN SqrtIter(n, mid, hi) ELSE SqrtIter(n, lo, mid - 1)
\* floor of the square root of n >= 0
ISqrt(n) == IF n <= 0 THEN 0 ELSE SqrtIter(n, 1, n)

\* core::f32::consts::FRAC_PI_2 in angle units (1.5708), and pi and 2 pi
FRAC_PI_2 == 15708
PI == 2 * FRAC_PI_2
TAU == 4 * FRAC_PI_2

\* sin x for 0 <= x <= FRAC_PI_2, in angle units, by its Taylor polynomial
SinQuadrant(x) ==
    LET x2 == (x * x) \div AQ
        t3 == (x * x2) \div (AQ * 6)
        t5 == (t3 * x2) \div (AQ * 20)
        t7 == (t5 * x2) \div (AQ * 42)
        t9 == (t7 * x2) \div (AQ * 72)
    IN  x - t3 + t5 - t7 + t9

\* sin a for any angle a (angle units), result an f32 (Q units)
Sin(a) ==
    LET r == a % TAU
        s == IF r >= PI THEN -1 ELSE 1
        h == IF r >= PI THEN r - PI ELSE r
        q == IF h > FRAC_PI_2 THEN PI - h ELSE h
    IN  s * ((SinQuadrant(q) + 5) \div (AQ \div Q))
Cos(a) == Sin(a + FRAC_PI_2)

(***************************************************************************)
(* light.rs: uniform layouts                                               *)
(***************************************************************************)
SizeOfF32 == 4
SizeOfU32 == 4
SizeOfArray(elem, n) == elem * n

RECURSIVE SumSeq(_)
SumSeq(s) == IF s = <<>> THEN 0 ELSE Head(s) + SumSeq(Tail(s))
\* size of a #[repr(C)] struct whose fields all have alignment 4: no padding
SizeOfReprC(fields) == SumSeq(fields)

MAX_AMBIENT_LIGHTS == 1
MAX_DIRECTIONAL_LIGHTS == 10
MAX_POINT_LIGHTS == 256
MAX_SPOT_LIGHTS == 256

Kinds == {"Ambient", "Directional", "Point", "Spot"}
KindOrder == <<"Ambient", "Directional", "Point", "Spot">>

Capacity(kind) ==
    CASE kind = "Ambient" -> MAX_AMBIENT_LIGHTS
      [] kind = "Directional" -> MAX_DIRECTIONAL_LIGHTS
      [] kind = "Point" -> MAX_POINT_LIGHTS
      [] kind = "Spot" -> MAX_SPOT_LIGHTS

SizeOfAmbientUniform == SizeOfArray(SizeOfF32, 4)
SizeOfDirectionalLightUniform ==
    SizeOfReprC(<<SizeOfArray(SizeOfF32, 4), SizeOfArray(SizeOfF32, 3), SizeOfU32>>)
SizeOfPointLightUniform ==
    SizeOfReprC(<<SizeOfArray(SizeOfF32, 3), SizeOfU32,
                  SizeOfArray(SizeOfF32, 3), SizeOfU32,
                  SizeOfArray(SizeOfF32, 3), SizeOfU32>>)
SizeOfSpotLightUniform ==
    SizeOfReprC(<<SizeOfPointLightUniform, SizeOfArray(SizeOfF32, 4)>>)

\* size of the slot type of a kind's array in LightBuffer
SizeOfUniform(kind) ==
    CASE kind = "Ambient" -> SizeOfAmbientUniform
      [] kind = "Directional" -> SizeOfDirectionalLightUniform
      [] kind = "Point" -> SizeOfPointLightUniform
      [] kind = "Spot" -> SizeOfSpotLightUniform

\* size_of::<LightBuffer>()
SizeOfLightBuffer ==
    SizeOfReprC(<<SizeOfArray(SizeOfAmbientUniform, MAX_AMBIENT_LIGHTS),
                  SizeOfArray(SizeOfDirectionalLightUniform, MAX_DIRECTIONAL_LIGHTS),
                  SizeOfArray(SizeOfPointLightUniform, MAX_POINT_LIGHTS),
                  SizeOfArray(SizeOfSpotLightUniform, MAX_SPOT_LIGHTS),
                  SizeOfArray(SizeOfU32, 4)>>)

(***************************************************************************)
(* light.rs: serialisation (bytemuck::cast_slice), one entry per word      *)
(***************************************************************************)
U32Bits(n) == <<"u32", n>>
\* 0.0f32 and 0u32 are the same 32 bits
F32Bits(x) == IF x = 0 THEN U32Bits(0) ELSE <<"f32", x>>
ZeroWord == U32Bits(0)

F32Words(s) == [i \in 1..Len(s) |-> F32Bits(s[i])]

BaseLightUniform(l) == <<l.color[1], l.color[2], l.color[3], l.strength>>

\* DirectionalLightUniform without its padding word
DirectionalLightUniformWords_unpadded(l) ==
    F32Words(BaseLightUniform(l.base)) \o F32Words(l.direction)

DirectionalLightUniformWords(l) ==
    F32Words(BaseLightUniform(l.base)) \o F32Words(l.direction) \o <<U32Bits(0)>>

PointLightUniformWords(l) ==
    F32Words(l.color) \o <<U32Bits(0)>>
    \o F32Words(<<l.attenuation.constant, l.attenuation.linear, l.attenuation.exp>>)
    \o <<U32Bits(0)>>
    \o F32Words(l.position) \o <<U32Bits(0)>>

SpotLightUniformWords(l) ==
    PointLightUniformWords(l.base)
    \o F32Words(<<l.direction[1], l.direction[2], l.direction[3], Cos(l.cutoff)>>)

\* Light::buffer_data of the four implementations
buffer_data(l) ==
    CASE l.ty = "BaseLight" -> F32Words(BaseLightUniform(l))
      [] l.ty = "DirectionalLight" -> DirectionalLightUniformWords(l)
      [] l.ty = "PointLight" -> PointLightUniformWords(l)
      [] l.ty = "SpotLight" -> SpotLightUniformWords(l)

ByteLen(words) == SizeOfU32 * Len(words)

(***************************************************************************)
(* light.rs: LightBufferManager                                            *)
(***************************************************************************)
\* calculate_buffer_offset with the directional array left out of the Point offset
calculate_buffer_offset_skips_array(kind, index) ==
    CASE kind = "Ambient" -> SizeOfArray(SizeOfF32, 4) * index
      [] kind = "Directional" ->
            SizeOfArray(SizeOfAmbientUniform, MAX_AMBIENT_LIGHTS)
            + SizeOfDirectionalLightUniform * index
      [] kind = "Point" ->
            SizeOfArray(SizeOfAmbientUniform, MAX_AMBIENT_LIGHTS)
            + SizeOfPointLightUniform * index
      [] kind = "Spot" ->
            SizeOfArray(SizeOfAmbientUniform, MAX_AMBIENT_LIGHTS)
            + SizeOfArray(SizeOfDirectionalLightUniform, MAX_DIRECTIONAL_LIGHTS)
            + SizeOfArray(SizeOfPointLightUniform, MAX_POINT_LIGHTS)
            + SizeOfSpotLightUniform * index

calculate_buffer_offset(kind, index) ==
    CASE kind = "Ambient" -> SizeOfArray(SizeOfF32, 4) * index
      [] kind = "Directional" ->
            SizeOfArray(SizeOfAmbientUniform, MAX_AMBIENT_LIGHTS)
            + SizeOfDirectionalLightUniform * index
      [] kind = "Point" ->
            SizeOfArray(SizeOfAmbientUniform, MAX_AMBIENT_LIGHTS)
            + SizeOfArray(SizeOfDirectionalLightUniform, MAX_DIRECTIONAL_LIGHTS)
            + SizeOfPointLightUniform * index
      [] kind = "Spot" ->
            SizeOfArray(SizeOfAmbientUniform, MAX_AMBIENT_LIGHTS)
            + SizeOfArray(SizeOfDirectionalLightUniform, MAX_DIRECTIONAL_LIGHTS)
            + SizeOfArray(SizeOfPointLightUniform, MAX_POINT_LIGHTS)
            + SizeOfSpotLightUniform * index

\* the word of the buffer at word index w
BufAt(buf, w) == IF w \in DOMAIN buf THEN buf[w] ELSE ZeroWord

\* the write overruns the buffer: the backend rejects it
WriteOverruns(offset, data) == offset + ByteLen(data) > SizeOfLightBuffer

\* queue.write_buffer(&self.light_buffer, offset, data): the buffer afterwards
write_buffer(buf, offset, data) ==
    IF WriteOverruns(offset, data) THEN buf
    ELSE LET first == offset \div SizeOfU32
             written == {first + j - 1 : j \in 1..Len(data)}
             value(w) == IF w \in written THEN data[w - first + 1] ELSE buf[w]
             keep == {w \in DOMAIN buf \cup written : value(w) # ZeroWord}
         IN  [w \in keep |-> value(w)]

\* the calls made so far are bounded
MaxLightOps == 3

\* the lights handed to update_light_buffer: one of each implementation of Light
SampleLights ==
    LET base == [ty |-> "BaseLight", color |-> <<1000, 500, 250>>, strength |-> 2000]
        point == [ty |-> "PointLight", color |-> <<100, 200, 300>>,
                  attenuation |-> [constant |-> 1000, linear |-> 90, exp |-> 32],
                  position |-> <<-2000, 4000, 6000>>]
    IN  { base,
          [ty |-> "DirectionalLight", base |-> base, direction |-> <<-1000, -3000, 0>>],
          point,
          [ty |-> "SpotLight", base |-> point, direction |-> <<0, -1000, 0>>,
           cutoff |-> 10472] }

\* the slot indices tried: the first and last slot of a kind, and one past the end
SampleIndices(kind) == {0, Capacity(kind) - 1, Capacity(kind)}

NoCall == [op |-> "none", kind |-> "none", index |-> 0, light |-> "none"]

LightInit ==
    /\ light_buffer = <<>>
    /\ counts = [k \in Kinds |-> 0]
    /\ queue_writes = <<>>
    /\ last_call = NoCall
    /\ prev_buffer = <<>>
    /\ synced_counts = [k \in Kinds |-> 0]
    /\ validation_error = FALSE
    /\ light_ops = 0

\* one call of the manager that issues the write (offset, data)
IssueWrite(offset, data) ==
    /\ queue_writes' = <<[offset |-> offset, data |-> data]>>
    /\ prev_buffer' = light_buffer
    /\ light_buffer' = write_buffer(light_buffer, offset, data)
    /\ validation_error' = WriteOverruns(offset, data)
    /\ light_ops' = light_ops + 1

update_light_buffer(kind, index, light) ==
    /\ ~validation_error
    /\ light_ops < MaxLightOps
    /\ IssueWrite(calculate_buffer_offset(kind, index), buffer_data(light))
    /\ last_call' = [op |-> "update_light_buffer", kind |-> kind, index |-> index,
                     light |-> light]
    /\ UNCHANGED <<counts, synced_counts, fps_vars, orbit_vars, frame_vars, geo_vars>>

\* offset of the count header, one slot short
CountsOffset_last_slot == calculate_buffer_offset("Spot", MAX_SPOT_LIGHTS - 1)
\* offset of the count header: the offset of the slot after the last spot slot
CountsOffset == calculate_buffer_offset("Spot", MAX_SPOT_LIGHTS)

CountWords == <<U32Bits(counts["Ambient"]), U32Bits(counts["Directional"]),
                U32Bits(counts["Point"]), U32Bits(counts["Spot"])>>

update_light_counts ==
    /\ ~validation_error
    /\ light_ops < MaxLightOps
    /\ IssueWrite(CountsOffset, CountWords)
    /\ last_call' = [NoCall EXCEPT !.op = "update_light_counts"]
    /\ synced_counts' = counts
    /\ UNCHANGED <<counts, fps_vars, orbit_vars, frame_vars, geo_vars>>

\* the owner of the manager assigns one of its public count fields
set_count(kind) ==
    /\ ~validation_error
    /\ light_ops < MaxLightOps
    /\ counts[kind] < Capacity(kind)
    /\ counts' = [counts EXCEPT ![kind] = @ + 1]
    /\ last_call' = [NoCall EXCEPT !.op = "set_count", !.kind = kind]
    /\ queue_writes' = <<>>
    /\ prev_buffer' = light_buffer
    /\ light_ops' = light_ops + 1
    /\ UNCHANGED <<light_buffer, synced_counts, validation_error, fps_vars, orbit_vars,
                   frame_vars, geo_vars>>

LightNext ==
    \/ \E kind \in Kinds : \E index \in SampleIndices(kind) : \E light \in SampleLights :
          update_light_buffer(kind, index, light)
    \/ update_light_counts
    \/ \E kind \in Kinds : set_count(kind)

(***************************************************************************)
(* cgmath: Vector3<f32> / Point3<f32>                                      *)
(***************************************************************************)
VAdd(a, b) == <<a[1] + b[1], a[2] + b[2], a[3] + b[3]>>
VSub(a, b) == <<a[1] - b[1], a[2] - b[2], a[3] - b[3]>>
VNeg(a) == <<-a[1], -a[2], -a[3]>>
\* vector * scalar
VScale(a, s) == <<FMul(a[1], s), FMul(a[2], s), FMul(a[3], s)>>
VCross(a, b) == <<FMul(a[2], b[3]) - FMul(a[3], b[2]),
                  FMul(a[3], b[1]) - FMul(a[1], b[3]),
                  FMul(a[1], b[2]) - FMul(a[2], b[1])>>
\* InnerSpace::magnitude
Magnitude(a) == ISqrt(a[1] * a[1] + a[2] * a[2] + a[3] * a[3])
\* InnerSpace::normalize, for a vector of magnitude # 0
Normalize(a) ==
    LET m == Magnitude(a) IN <<FDiv(a[1], m), FDiv(a[2], m), FDiv(a[3], m)>>
UnitY == <<0, Q, 0>>

(***************************************************************************)
(* cgmath: Matrix4<f32>, a sequence of four columns of four entries        *)
(***************************************************************************)
VDot(a, b) == FMul(a[1], b[1]) + FMul(a[2], b[2]) + FMul(a[3], b[3])

\* Matrix4 * Matrix4
MatMul(a, b) ==
    [c \in 1..4 |->
        [r \in 1..4 |-> FMul(a[1][r], b[c][1]) + FMul(a[2][r], b[c][2])
                        + FMul(a[3][r], b[c][3]) + FMul(a[4][r], b[c][4])]]

\* Matrix4::look_to_rh(eye, dir, up)
look_to_rh(eye, dir, up) ==
    LET f == Normalize(dir)
        s == Normalize(VCross(f, up))
        u == VCross(s, f)
    IN  << <<s[1], u[1], -f[1], 0>>,
           <<s[2], u[2], -f[2], 0>>,
           <<s[3], u[3], -f[3], 0>>,
           <<-VDot(eye, s), -VDot(eye, u), VDot(eye, f), Q>> >>

\* cgmath::perspective(fovy, aspect, near, far)
perspective(fovy, aspect, near, far) ==
    LET f == FDiv(Cos(fovy \div 2), Sin(fovy \div 2))
    IN  << <<FDiv(f, aspect), 0, 0, 0>>,
           <<0, f, 0, 0>>,
           <<0, 0, FDiv(far + near, near - far), -Q>>,
           <<0, 0, FDiv(2 * FMul(far, near), near - far), 0>> >>

(***************************************************************************)
(* camera.rs: Projection and CameraUniform                                 *)
(***************************************************************************)
OPENGL_TO_WGPU_MATRIX ==
    << <<Q, 0, 0, 0>>,
       <<0, Q, 0, 0>>,
       <<0, 0, Q \div 2, 0>>,
       <<0, 0, Q \div 2, Q>> >>

\* Deg(d) as Rad, in angle units
Deg(d) == (d * PI) \div 180

\* Projection::new
Projection_new(width, height, fovy, znear, zfar) ==
    [aspect |-> FDiv(width * Q, height * Q), fovy |-> fovy, znear |-> znear, zfar |-> zfar]

\* Projection::calc_matrix
calc_matrix(p) ==
    MatMul(OPENGL_TO_WGPU_MATRIX, perspective(p.fovy, p.aspect, p.znear, p.zfar))

\* Point3::to_homogeneous
to_homogeneous(p) == <<p[1], p[2], p[3], Q>>

\* bytemuck::cast_slice(&[CameraUniform]): view_position, then view_proj by columns
CameraUniformWords(u) ==
    F32Words(u.view_position)
    \o F32Words(u.view_proj[1]) \o F32Words(u.view_proj[2])
    \o F32Words(u.view_proj[3]) \o F32Words(u.view_proj[4])

\* size_of::<CameraUniform>()
SizeOfCameraUniform ==
    SizeOfReprC(<<SizeOfArray(SizeOfF32, 4), SizeOfArray(SizeOfArray(SizeOfF32, 4), 4)>>)

\* the renderer's projection of an 800 x 600 surface
SampleProjection == Projection_new(800, 600, Deg(45), Q \div 10, 100 * Q)

(***************************************************************************)
(* controller events (winit)                                               *)
(***************************************************************************)
Keys == {"W", "Up", "S", "Down", "A", "Left", "D", "Right",
         "Space", "LShift", "LControl", "R"}
ElementStates == {"Pressed", "Released"}

KeyboardInput(state, key) == [ev |-> "KeyboardInput", state |-> state, key |-> key]
MouseMove(dx, dy) == [ev |-> "MouseMove", dx |-> dx, dy |-> dy]
MouseScroll(scroll) == [ev |-> "MouseScroll", scroll |-> scroll]
MouseInput(state) == [ev |-> "MouseInput", state |-> state]

\* the six movement intents of a camera
Intents == {"forward", "backward", "left", "right", "up", "down"}

\* the intent a key is bound to in FPSCamera::input ("none": the key is not bound)
FpsBinding(key) ==
    CASE key \in {"W", "Up"} -> "forward"
      [] key \in {"S", "Down"} -> "backward"
      [] key \in {"A", "Left"} -> "left"
      [] key \in {"D", "Right"} -> "right"
      [] key = "Space" -> "up"
      [] key = "LShift" -> "down"
      [] OTHER -> "none"

\* the intent a key is bound to in PerspectiveCamera::input
OrbitBinding(key) ==
    CASE key \in {"W", "Up"} -> "forward"
      [] key \in {"A", "Left"} -> "left"
      [] key \in {"S", "Down"} -> "backward"
      [] key \in {"D", "Right"} -> "right"
      [] key = "Space" -> "up"
      [] key = "LControl" -> "down"
      [] OTHER -> "none"

\* no key event has been delivered yet
NoKeys == [i \in Intents |-> "none"]

\* the record of the most recent key states after event e, under a binding
KeysAfter(keys, intent, e) ==
    IF e.ev = "KeyboardInput" /\ intent \in Intents
    THEN [keys EXCEPT ![intent] = e.state]
    ELSE keys

\* nothing received since the last update
NothingPending == [dx |-> 0, dy |-> 0, scroll |-> 0]

\* the sums of the deltas received, after event e
PendingAfter(pending, e) ==
    CASE e.ev = "MouseMove" -> [pending EXCEPT !.dx = @ + e.dx, !.dy = @ + e.dy]
      [] e.ev = "MouseScroll" -> [pending EXCEPT !.scroll = @ + e.scroll]
      [] OTHER -> pending

\* the mouse deltas tried (whole device units)
SampleMoves == {<<5, -3>>, <<-12, 10>>}
\* the scroll amounts tried: one wheel line either way (lib.rs scales a line by 100)
SampleScrolls == {100 * Q, -100 * Q}
\* the frame times tried: no time, one 60 Hz frame, one second
SampleDts == {0, 16, Q}

SampleEvents ==
    {KeyboardInput(s, k) : s \in ElementStates, k \in Keys}
    \cup {MouseMove(m[1], m[2]) : m \in SampleMoves}
    \cup {MouseScroll(x) : x \in SampleScrolls}
    \cup {MouseInput("Pressed")}

(***************************************************************************)
(* camera.rs: FPSCamera                                                    *)
(***************************************************************************)
\* core::f32::consts::FRAC_PI_2 - 0.0001
SAFE_FRAC_PI_2 == FRAC_PI_2 - 1

\* an amount that a release does not clear
Amount_sticky(state) == Q

\* 1.0 for a press, 0.0 for a release
Amount(state) == IF state = "Pressed" THEN Q ELSE 0

\* Rad(x) * sensitivity * dt, for a raw delta x
RotateBy(x, sensitivity, dt) == (AQ \div Q) * FMul(FMul(x * Q, sensitivity), dt)

\* input that turns the camera itself on a mouse move
FPSCamera_input_turns(c, e) ==
    IF e.ev = "MouseMove"
    THEN [c EXCEPT !.yaw = @ + e.dx, !.pitch = @ - e.dy]
    ELSE c

FPSCamera_input(c, e) ==
    CASE e.ev = "KeyboardInput" ->
            LET amount == Amount(e.state) IN
            CASE e.key \in {"W", "Up"} -> [c EXCEPT !.amount_forward = amount]
              [] e.key \in {"S", "Down"} -> [c EXCEPT !.amount_backward = amount]
              [] e.key \in {"A", "Left"} -> [c EXCEPT !.amount_left = amount]
              [] e.key \in {"D", "Right"} -> [c EXCEPT !.amount_right = amount]
              [] e.key = "Space" -> [c EXCEPT !.amount_up = amount]
              [] e.key = "LShift" -> [c EXCEPT !.amount_down = amount]
              [] OTHER -> c
      [] e.ev = "MouseMove" ->
            [c EXCEPT !.rotate_horizontal = e.dx, !.rotate_vertical = e.dy]
      [] e.ev = "MouseScroll" -> [c EXCEPT !.scroll = @ - e.scroll]
      [] OTHER -> c

\* the clamp with its lower bound left out
ClampPitch_upper_only(pitch) ==
    IF pitch > SAFE_FRAC_PI_2 THEN SAFE_FRAC_PI_2 ELSE pitch

\* pitch after the final clamp of update
ClampPitch(pitch) ==
    IF pitch < -SAFE_FRAC_PI_2 THEN -SAFE_FRAC_PI_2
    ELSE IF pitch > SAFE_FRAC_PI_2 THEN SAFE_FRAC_PI_2
    ELSE pitch

\* update without the reset of the rotation deltas
ResetRotation_missing(c) == c

\* rotate_horizontal and rotate_vertical after update
ResetRotation(c) == [c EXCEPT !.rotate_horizontal = 0, !.rotate_vertical = 0]

\* update without the reset of scroll
ResetScroll_missing(c) == c

\* scroll after update
ResetScroll(c) == [c EXCEPT !.scroll = 0]

\* a forward direction that follows the pitch as well
Forward_pitched(yaw_sin, yaw_cos, pitch_sin, pitch_cos) ==
    Normalize(<<FMul(pitch_cos, yaw_cos), pitch_sin, FMul(pitch_cos, yaw_sin)>>)

\* the direction of forward movement: from yaw alone
Forward(yaw_sin, yaw_cos, pitch_sin, pitch_cos) == Normalize(<<yaw_cos, 0, yaw_sin>>)

\* the direction the scroll moves the position along
Scrollward(yaw_sin, yaw_cos, pitch_sin, pitch_cos) ==
    Normalize(<<FMul(pitch_cos, yaw_cos), pitch_sin, FMul(pitch_cos, yaw_sin)>>)

\* the direction view_proj looks along
ViewDirection(yaw, pitch) == Normalize(<<Cos(yaw), Sin(pitch), Sin(yaw)>>)

FPSCamera_update(c, dt) ==
    LET yaw_sin == Sin(c.yaw)
        yaw_cos == Cos(c.yaw)
        forward == Forward(yaw_sin, yaw_cos, Sin(c.pitch), Cos(c.pitch))
        right == Normalize(<<-yaw_sin, 0, yaw_cos>>)
        p1 == VAdd(c.position,
                   VScale(VScale(VScale(forward, c.amount_forward - c.amount_backward),
                                 c.speed), dt))
        p2 == VAdd(p1,
                   VScale(VScale(VScale(right, c.amount_right - c.amount_left),
                                 c.speed), dt))
        pitch_sin == Sin(c.pitch)
        pitch_cos == Cos(c.pitch)
        scrollward == Scrollward(yaw_sin, yaw_cos, pitch_sin, pitch_cos)
        p3 == VAdd(p2,
                   VScale(VScale(VScale(VScale(scrollward, c.scroll), c.speed),
                                 c.sensitivity), dt))
        p4 == [p3 EXCEPT ![2] = @ + FMul(FMul(c.amount_up - c.amount_down, c.speed), dt)]
        yaw == c.yaw + RotateBy(c.rotate_horizontal, c.sensitivity, dt)
        pitch == c.pitch + RotateBy(-c.rotate_vertical, c.sensitivity, dt)
    IN  ResetRotation(ResetScroll([c EXCEPT !.position = p4, !.yaw = yaw,
                                            !.pitch = ClampPitch(pitch)]))

\* FPSCamera::new
FPSCamera_new(position, yaw, pitch, projection, speed, sensitivity) ==
    [position |-> position, yaw |-> yaw, pitch |-> pitch, projection |-> projection,
     amount_left |-> 0, amount_right |-> 0, amount_forward |-> 0,
     amount_backward |-> 0, amount_up |-> 0, amount_down |-> 0,
     rotate_horizontal |-> 0, rotate_vertical |-> 0, scroll |-> 0,
     speed |-> speed, sensitivity |-> sensitivity]

\* Camera::view_proj for FPSCamera
FPSCamera_view_proj(c) ==
    LET view == look_to_rh(c.position, ViewDirection(c.yaw, c.pitch), UnitY)
        proj == calc_matrix(c.projection)
    IN  [view_position |-> to_homogeneous(c.position), view_proj |-> MatMul(proj, view)]

\* the calls made so far on the camera are bounded
MaxCameraOps == 3

\* the camera the renderer constructs, but for the pitch
RendererCamera(pitch) ==
    FPSCamera_new(<<0, 10 * Q, 20 * Q>>, Deg(-90), pitch, SampleProjection,
                  4 * Q, (4 * Q) \div 10)

\* the pitches the camera is constructed with: the renderer's, and two beyond the clamp
SamplePitches == {Deg(-20), Deg(120), Deg(-100)}
\* the yaws the camera is constructed with: the renderer's, and one off the axes
SampleYaws == {Deg(-90), Deg(30)}
\* the <<yaw, pitch>> the camera is constructed with
SamplePoses ==
    {<<Deg(-90), pitch>> : pitch \in SamplePitches}
    \cup {<<yaw, Deg(-20)>> : yaw \in SampleYaws}

NoCameraCall == [op |-> "none"]

FpsInit ==
    /\ camera_variant = "FPSCamera"
    /\ \E pose \in SamplePoses :
          fps = [RendererCamera(pose[2]) EXCEPT !.yaw = pose[1]]
    /\ fps_prev = fps
    /\ fps_call = NoCameraCall
    /\ fps_call_before = NoCameraCall
    /\ fps_ops = 0
    /\ fps_pending = NothingPending
    /\ fps_consumed = NothingPending
    /\ fps_keys = NoKeys

\* the camera after input(e), and the record of that call
FpsInputCalled(camera, e) ==
    /\ fps' = camera
    /\ fps_prev' = fps
    /\ fps_call' = [op |-> "input", event |-> e]
    /\ fps_call_before' = fps_call
    /\ fps_ops' = fps_ops + 1
    /\ fps_pending' = PendingAfter(fps_pending, e)
    /\ fps_keys' = IF e.ev = "KeyboardInput"
                   THEN KeysAfter(fps_keys, FpsBinding(e.key), e) ELSE fps_keys
    /\ UNCHANGED fps_consumed

\* the camera after update(dt), and the record of that call
FpsUpdateCalled(camera, dt) ==
    /\ fps' = camera
    /\ fps_prev' = fps
    /\ fps_call' = [op |-> "update", dt |-> dt]
    /\ fps_call_before' = fps_call
    /\ fps_ops' = fps_ops + 1
    /\ fps_pending' = NothingPending
    /\ fps_consumed' = fps_pending
    /\ UNCHANGED fps_keys

FpsInput(e) ==
    /\ camera_variant = "FPSCamera"
    /\ fps_ops < MaxCameraOps
    /\ FpsInputCalled(FPSCamera_input(fps, e), e)
    /\ UNCHANGED <<camera_variant, light_vars, orbit_vars, frame_vars, geo_vars>>

FpsUpdate(dt) ==
    /\ camera_variant = "FPSCamera"
    /\ fps_ops < MaxCameraOps
    /\ FpsUpdateCalled(FPSCamera_update(fps, dt), dt)
    /\ UNCHANGED <<camera_variant, light_vars, orbit_vars, frame_vars, geo_vars>>

(***************************************************************************)
(* camera.rs: PerspectiveCamera (the orbit camera)                         *)
(*                                                                         *)
(* eye_nan says that the coordinates of eye are NaN: normalize() of a zero *)
(* vector divides by zero, and every value computed from it is NaN.        *)
(***************************************************************************)
\* position the R key puts the eye at
ResetEye == <<0, 5 * Q, 10 * Q>>

PerspectiveCamera_new(eye, target, projection, speed) ==
    [eye |-> eye, eye_nan |-> FALSE, target |-> target, up |-> UnitY,
     projection |-> projection,
     is_forward_pressed |-> FALSE, is_backward_pressed |-> FALSE,
     is_left_pressed |-> FALSE, is_right_pressed |-> FALSE,
     is_up_pressed |-> FALSE, is_down_pressed |-> FALSE,
     speed |-> speed]

PerspectiveCamera_input(c, e) ==
    CASE e.ev = "KeyboardInput" ->
            LET is_pressed == (e.state = "Pressed") IN
            CASE e.key \in {"W", "Up"} -> [c EXCEPT !.is_forward_pressed = is_pressed]
              [] e.key \in {"A", "Left"} -> [c EXCEPT !.is_left_pressed = is_pressed]
              [] e.key \in {"S", "Down"} -> [c EXCEPT !.is_backward_pressed = is_pressed]
              [] e.key \in {"D", "Right"} -> [c EXCEPT !.is_right_pressed = is_pressed]
              [] e.key = "R" -> [c EXCEPT !.eye = ResetEye, !.eye_nan = FALSE]
              [] e.key = "Space" -> [c EXCEPT !.is_up_pressed = is_pressed]
              [] e.key = "LControl" -> [c EXCEPT !.is_down_pressed = is_pressed]
              [] OTHER -> c
      [] OTHER -> c

\* the guard of the forward step
ForwardAllowed(c, forward_mag) == c.is_forward_pressed /\ forward_mag > Q

\* a step that moves the eye along side instead of turning it around the target
OrbitStep_translates(c, forward, side, forward_mag, dt) ==
    [c EXCEPT !.eye = VSub(c.eye, VScale(VScale(side, c.speed), dt))]

\* target - (forward + side * speed * dt).normalize() * forward_mag
OrbitStep(c, forward, side, forward_mag, dt) ==
    LET moved == VAdd(forward, VScale(VScale(side, c.speed), dt))
    IN  IF Magnitude(moved) = 0
        THEN [c EXCEPT !.eye_nan = TRUE]
        ELSE [c EXCEPT !.eye = VSub(c.target, VScale(Normalize(moved), forward_mag))]

PerspectiveCamera_update(c, dt) ==
    LET forward0 == VSub(c.target, c.eye)
        forward_mag0 == Magnitude(forward0)
        \* forward.normalize() is NaN when eye is NaN or forward is the zero vector
        norm_nan == c.eye_nan \/ forward_mag0 = 0
        forward_norm == IF norm_nan THEN <<0, 0, 0>> ELSE Normalize(forward0)
        c1 == IF ~c.eye_nan /\ ForwardAllowed(c, forward_mag0)
              THEN [c EXCEPT !.eye = VAdd(c.eye, VScale(VScale(forward_norm, c.speed), dt))]
              ELSE c
        c2 == IF c.is_backward_pressed
              THEN IF norm_nan THEN [c1 EXCEPT !.eye_nan = TRUE]
                   ELSE [c1 EXCEPT !.eye = VSub(c1.eye,
                                                VScale(VScale(forward_norm, c.speed), dt))]
              ELSE c1
        right == VCross(forward_norm, c.up)
        forward == VSub(c.target, c2.eye)
        forward_mag == Magnitude(forward)
        up == VSub(forward_norm, Normalize(c.up))
        Turn(cam, pressed, side) ==
            IF ~pressed THEN cam
            ELSE IF norm_nan THEN [cam EXCEPT !.eye_nan = TRUE]
            ELSE OrbitStep(cam, forward, side, forward_mag, dt)
        c3 == Turn(c2, c.is_right_pressed, right)
        c4 == Turn(c3, c.is_left_pressed, VNeg(right))
        c5 == Turn(c4, c.is_up_pressed, up)
        c6 == Turn(c5, c.is_down_pressed, VNeg(up))
    IN  c6

\* Camera::view_proj for PerspectiveCamera (look_at_rh looks along target - eye)
PerspectiveCamera_view_proj(c) ==
    LET view == look_to_rh(c.eye, VSub(c.target, c.eye), c.up)
        proj == calc_matrix(c.projection)
    IN  [view_position |-> to_homogeneous(c.eye), view_proj |-> MatMul(proj, view)]

\* the eyes the camera is constructed with, all further than 1.0 from the target
SampleEyes == {ResetEye, <<0, 0, Q + 10>>, <<0, 0, Q + Q \div 2>>}

OrbitInit ==
    /\ camera_variant = "PerspectiveCamera"
    /\ \E eye \in SampleEyes :
          orbit = PerspectiveCamera_new(eye, <<0, 0, 0>>, SampleProjection, Q)
    /\ orbit_prev = orbit
    /\ orbit_init = orbit
    /\ orbit_call = NoCameraCall
    /\ only_forward = TRUE
    /\ orbit_ops = 0
    /\ orbit_keys = NoKeys

OrbitInput(e) ==
    /\ camera_variant = "PerspectiveCamera"
    /\ orbit_ops < MaxCameraOps
    /\ orbit' = PerspectiveCamera_input(orbit, e)
    /\ orbit_prev' = orbit
    /\ orbit_call' = [op |-> "input", event |-> e]
    /\ only_forward' = (only_forward /\ e.ev = "KeyboardInput"
                        /\ e.state = "Pressed" /\ e.key \in {"W", "Up"})
    /\ orbit_ops' = orbit_ops + 1
    /\ orbit_keys' = IF e.ev = "KeyboardInput"
                     THEN KeysAfter(orbit_keys, OrbitBinding(e.key), e) ELSE orbit_keys
    /\ UNCHANGED <<orbit_init, light_vars, fps_vars, frame_vars, geo_vars>>

OrbitUpdate(dt) ==
    /\ camera_variant = "PerspectiveCamera"
    /\ orbit_ops < MaxCameraOps
    /\ orbit' = PerspectiveCamera_update(orbit, dt)
    /\ orbit_prev' = orbit
    /\ orbit_call' = [op |-> "update", dt |-> dt]
    /\ orbit_ops' = orbit_ops + 1
    /\ UNCHANGED <<orbit_init, only_forward, orbit_keys, light_vars, fps_vars,
                   frame_vars, geo_vars>>

(***************************************************************************)
(* renderer.rs: Renderer, and lib.rs: run (the frame loop)                 *)
(*                                                                         *)
(* The Renderer's camera is the FPSCamera fps. The surface and the depth   *)
(* texture are kept as the size they were made for, the camera buffer as   *)
(* the pose and projection its contents were computed from, the light      *)
(* buffers as the turn and the attenuation they were written from.         *)
(*                                                                         *)
(* winit's event loop calls the closure of run once per event. In one      *)
(* iteration it delivers the window and device events, MainEventsCleared,  *)
(* the RedrawRequested that was asked for and RedrawEventsCleared; when    *)
(* the control flow is Exit at the end of an iteration it delivers         *)
(* LoopDestroyed and stops. Exit is sticky: once set it cannot be changed. *)
(***************************************************************************)
PhysicalSize(width, height) == [width |-> width, height |-> height]

\* width as f32 / height as f32: infinite or NaN when height is 0
AspectOf(width, height) ==
    IF height = 0 THEN (IF width = 0 THEN "NaN" ELSE "inf")
    ELSE FDiv(width * Q, height * Q)

\* Projection::resize
Projection_resize(p, width, height) == [p EXCEPT !.aspect = AspectOf(width, height)]

\* the size of the window the renderer is made for
WindowSize == PhysicalSize(800, 600)

\* sin and cos of a time in seconds
SinOfSeconds(time) == Sin(time * (AQ \div Q))
CosOfSeconds(time) == Cos(time * (AQ \div Q))

\* what the camera's uniform is computed from
UniformSource(camera) ==
    [position |-> camera.position, yaw |-> camera.yaw, pitch |-> camera.pitch,
     projection |-> camera.projection]

\* the words in the camera buffer
CameraBufferWords(r) == CameraUniformWords(FPSCamera_view_proj(r.camera_buffer))

\* Renderer::new
Renderer_new(size) ==
    [size |-> size, config |-> size, surface |-> size, depth_texture |-> size,
     camera_buffer |-> UniformSource(RendererCamera(Deg(-20))),
     directional_turns |-> 0, directional_light_buffer |-> 0,
     point_turns |-> 0, point_linear |-> 0,
     point_light_buffer |-> [turns |-> 0, linear |-> 0, exp |-> 0]]

\* a guard that looks at the width only
ResizeAccepted_width_only(new_size) == new_size.width > 0

\* the guard of Renderer::resize
ResizeAccepted(new_size) == new_size.width > 0 /\ new_size.height > 0

\* Renderer::resize: the renderer and its camera afterwards, and the calls made
Renderer_resize(r, camera, new_size) ==
    IF ResizeAccepted(new_size)
    THEN [r |-> [r EXCEPT !.size = new_size, !.config = new_size,
                          !.surface = new_size, !.depth_texture = new_size],
          camera |-> [camera EXCEPT !.projection =
                          Projection_resize(@, new_size.width, new_size.height)],
          ops |-> <<"resize", "configure">>]
    ELSE [r |-> r, camera |-> camera, ops |-> <<"resize">>]

\* Renderer::update, given the camera moved as its update(dt) moves it: the camera's
\* uniform is written, the directional light is turned by 1 degree, the point light
\* by -1 degree and its attenuation follows the time
Renderer_updated(r, moved, dt) ==
    LET time == r.point_linear + dt
    IN  [r |-> [r EXCEPT
                  !.camera_buffer = UniformSource(moved),
                  !.directional_turns = (@ + 1) % 360,
                  !.directional_light_buffer = (r.directional_turns + 1) % 360,
                  !.point_turns = (@ + 1) % 360,
                  !.point_light_buffer =
                      [turns |-> (r.point_turns + 1) % 360,
                       linear |-> SinOfSeconds(time) + Q,
                       exp |-> CosOfSeconds(time) + Q],
                  !.point_linear = time],
         camera |-> moved,
         ops |-> <<"update">>]

\* an update that writes the camera's uniform before it moves the camera
Renderer_update_writes_first(r, camera, dt) ==
    [Renderer_updated(r, FPSCamera_update(camera, dt), dt)
        EXCEPT !.r.camera_buffer = UniformSource(camera)]

Renderer_update(r, camera, dt) == Renderer_updated(r, FPSCamera_update(camera, dt), dt)

\* what Surface::get_current_texture, and so Renderer::render, can return
RenderResults == {"Ok", "Timeout", "Outdated", "Lost", "OutOfMemory"}

\* Renderer::render: the calls made; the frame is presented when the texture was got
Renderer_render(result) ==
    IF result = "Ok" THEN <<"render", "present">> ELSE <<"render">>

\* a loop that gives up on a lost surface
OnRenderResult_lost_exits(result) ==
    CASE result = "Ok" -> "none"
      [] result \in {"Lost", "OutOfMemory"} -> "exit"
      [] OTHER -> "log"

\* a loop that only reports that the memory is exhausted
OnRenderResult_oom_logged(result) ==
    CASE result = "Ok" -> "none"
      [] result = "Lost" -> "resize"
      [] OTHER -> "log"

\* what run does with the result of render
OnRenderResult(result) ==
    CASE result = "Ok" -> "none"
      [] result = "Lost" -> "resize"
      [] result = "OutOfMemory" -> "exit"
      [] OTHER -> "log"

\* a redraw that renders what the last frame left
RedrawRequested_render_only(r, camera, dt, result) ==
    [r |-> r, camera |-> camera, exit |-> FALSE, ops |-> Renderer_render(result)]

\* the arm of run for Event::RedrawRequested, from the call of render on: u is
\* what update left
RenderAndRecover(u, result) ==
    LET done == [r |-> u.r, camera |-> u.camera, exit |-> FALSE,
                 ops |-> u.ops \o Renderer_render(result)]
        then == OnRenderResult(result)
    IN  CASE then = "resize" ->
                LET z == Renderer_resize(u.r, u.camera, u.r.size)
                IN  [r |-> z.r, camera |-> z.camera, exit |-> FALSE,
                     ops |-> done.ops \o z.ops]
          [] then = "exit" -> [done EXCEPT !.exit = TRUE]
          [] then = "log" -> [done EXCEPT !.ops = @ \o <<"eprintln">>]
          [] OTHER -> done

\* the arm of run for Event::RedrawRequested
RedrawRequested_handler(r, camera, dt, result) ==
    RenderAndRecover(Renderer_update(r, camera, dt), result)

\* the ControlFlow the event loop holds after a call of the closure, which sets Poll
\* first and Exit in some arms: Exit, once held, stays
ControlFlowAfter(held, exit) == IF held = "Exit" \/ exit THEN "Exit" ELSE "Poll"

\* the events handled so far are bounded
MaxFrameEvents == 6
\* the window and device events of one iteration of the loop are bounded
MaxQueuedEvents == 2

\* the sizes a window is resized to
SampleSizes == {PhysicalSize(1920, 0), PhysicalSize(0, 1080),
                PhysicalSize(1920, 1080), PhysicalSize(600, 800)}
\* the sizes a change of the scale factor brings
SampleScaledSizes == {PhysicalSize(0, 0), PhysicalSize(1280, 720)}
\* the keys pressed and released in the frame loop
SampleFrameKeys == {"W", "Space"}
\* the wheel deltas: one line, and fifty pixels the other way
SampleWheels == {[kind |-> "LineDelta", y |-> Q], [kind |-> "PixelDelta", y |-> -50 * Q]}
\* the mouse motion tried in the frame loop
SampleMotions == {<<5, -3>>}
\* the frame times tried in the frame loop
SampleFrameDts == {16, Q}

\* the scroll handed to the camera for a wheel delta
ScrollOf(delta) == IF delta.kind = "LineDelta" THEN 100 * delta.y ELSE delta.y

NoEvent == [name |-> "none"]
NoFrameCall == [event |-> NoEvent, ops |-> <<>>, exit |-> FALSE]

FrameInit ==
    /\ renderer = Renderer_new(WindowSize)
    /\ renderer_prev = renderer
    /\ aspect_prev = AspectOf(WindowSize.width, WindowSize.height)
    /\ control_flow = "Poll"
    /\ loop_phase = "events"
    /\ frame_call = NoFrameCall
    /\ frame_outcomes = <<>>
    /\ exit_by = NoEvent
    /\ frame_events = 0
    /\ queued_events = 0

\* one call of the closure: what is kept of it
Handled(event, ops, r, exit) ==
    /\ frame_events < MaxFrameEvents
    /\ renderer' = r
    /\ renderer_prev' = renderer
    /\ aspect_prev' = fps.projection.aspect
    /\ control_flow' = ControlFlowAfter(control_flow, exit)
    /\ frame_call' = [event |-> event, ops |-> ops, exit |-> exit]
    /\ exit_by' = IF exit /\ control_flow # "Exit" THEN event ELSE exit_by
    /\ frame_events' = frame_events + 1
    /\ UNCHANGED <<light_vars, orbit_vars, geo_vars>>

\* a call of the closure that hands the event e to camera.input
\* a window or device event is delivered
Queued ==
    /\ loop_phase = "events"
    /\ queued_events < MaxQueuedEvents
    /\ queued_events' = queued_events + 1

CameraInput(event, e) ==
    /\ Queued
    /\ Handled(event, <<"input">>, renderer, FALSE)
    /\ FpsInputCalled(FPSCamera_input(fps, e), e)
    /\ UNCHANGED <<camera_variant, loop_phase, frame_outcomes>>

DeviceEvent_MouseMotion(delta) ==
    CameraInput([name |-> "MouseMotion", delta |-> delta], MouseMove(delta[1], delta[2]))

WindowEvent_KeyboardInput(state, key) ==
    CameraInput([name |-> "KeyboardInput", state |-> state, key |-> key],
                KeyboardInput(state, key))

WindowEvent_MouseInput(state) ==
    CameraInput([name |-> "MouseInput", state |-> state], MouseInput(state))

WindowEvent_MouseWheel(delta) ==
    CameraInput([name |-> "MouseWheel", delta |-> delta], MouseScroll(ScrollOf(delta)))

\* a call of the closure that resizes the renderer
Resize(event, new_size) ==
    LET z == Renderer_resize(renderer, fps, new_size) IN
    /\ Queued
    /\ Handled(event, z.ops, z.r, FALSE)
    /\ fps' = z.camera
    /\ UNCHANGED <<camera_variant, fps_prev, fps_call, fps_call_before, fps_ops,
                   fps_pending, fps_consumed, fps_keys, loop_phase, frame_outcomes>>

WindowEvent_Resized(physical_size) ==
    Resize([name |-> "Resized", new_size |-> physical_size], physical_size)

WindowEvent_ScaleFactorChanged(new_inner_size) ==
    Resize([name |-> "ScaleFactorChanged", new_size |-> new_inner_size], new_inner_size)

WindowEvent_CloseRequested ==
    /\ Queued
    /\ Handled([name |-> "CloseRequested"], <<>>, renderer, TRUE)
    /\ UNCHANGED <<fps_vars, loop_phase, frame_outcomes>>

Event_MainEventsCleared ==
    /\ loop_phase = "events"
    /\ Handled([name |-> "MainEventsCleared"], <<"request_redraw">>, renderer, FALSE)
    /\ loop_phase' = "redraw"
    /\ queued_events' = 0
    /\ UNCHANGED <<fps_vars, frame_outcomes>>

\* a redraw is handled: h is what the handler left
RedrawHandled(h, dt, result) ==
    /\ loop_phase = "redraw"
    /\ Handled([name |-> "RedrawRequested", dt |-> dt, result |-> result],
               h.ops, h.r, h.exit)
    /\ IF "update" \in {h.ops[i] : i \in DOMAIN h.ops}
       THEN FpsUpdateCalled(h.camera, dt)
       ELSE UNCHANGED <<fps, fps_prev, fps_call, fps_call_before, fps_ops,
                        fps_pending, fps_consumed, fps_keys>>
    /\ loop_phase' = "cleared"
    /\ frame_outcomes' = Append(frame_outcomes, result)
    /\ UNCHANGED <<camera_variant, queued_events>>

Event_RedrawRequested(dt, result) ==
    RedrawHandled(RedrawRequested_handler(renderer, fps, dt, result), dt, result)

\* the other events go to the arm that does nothing
Event_RedrawEventsCleared ==
    /\ loop_phase = "cleared"
    /\ Handled([name |-> "RedrawEventsCleared"], <<>>, renderer, FALSE)
    /\ loop_phase' = IF control_flow = "Exit" THEN "exiting" ELSE "events"
    /\ UNCHANGED <<fps_vars, frame_outcomes, queued_events>>

Event_LoopDestroyed ==
    /\ loop_phase = "exiting"
    /\ Handled([name |-> "LoopDestroyed"], <<>>, renderer, FALSE)
    /\ loop_phase' = "destroyed"
    /\ UNCHANGED <<fps_vars, frame_outcomes, queued_events>>

FrameNext ==
    \/ \E delta \in SampleMotions : DeviceEvent_MouseMotion(delta)
    \/ \E state \in ElementStates, key \in SampleFrameKeys :
          WindowEvent_KeyboardInput(state, key)
    \/ WindowEvent_MouseInput("Pressed")
    \/ \E delta \in SampleWheels : WindowEvent_MouseWheel(delta)
    \/ \E size \in SampleSizes : WindowEvent_Resized(size)
    \/ \E size \in SampleScaledSizes : WindowEvent_ScaleFactorChanged(size)
    \/ WindowEvent_CloseRequested
    \/ Event_MainEventsCleared
    \/ \E dt \in SampleFrameDts, result \in RenderResults : Event_RedrawRequested(dt, result)
    \/ Event_RedrawEventsCleared
    \/ Event_LoopDestroyed

(***************************************************************************)
(* geometry.rs: Geometry                                                   *)
(*                                                                         *)
(* A mesh is a sequence of vertices and a sequence of indices (from 0).    *)
(* tb_nan says that the tangent and bitangent of a vertex are not finite:  *)
(* a triangle with a zero UV determinant, or a vertex in no triangle,      *)
(* divides by zero.                                                        *)
(***************************************************************************)
ModelVertex(position, tex_coords) ==
    [position |-> position, tex_coords |-> tex_coords, normal |-> <<0, Q, 0>>,
     tangent |-> <<0, 0, 0>>, bitangent |-> <<0, 0, 0>>, tb_nan |-> FALSE]

\* the vertex of row r and column c of plane(width, height, rows, columns)
PlaneVertex(width, height, rows, columns, r, c) ==
    LET quad_width == FDiv(width, columns * Q)
        quad_height == FDiv(height, rows * Q)
        start_x == FDiv(-width, 2 * Q)
        start_z == FDiv(-height, 2 * Q)
        position == <<start_x + FMul(c * Q, quad_width), 0,
                      start_z + FMul(r * Q, quad_height)>>
        tex_coords == <<FDiv(FDiv(-position[1], start_x) + Q, 2 * Q),
                        FDiv(FDiv(-position[3], start_z) + Q, 2 * Q)>>
    IN  ModelVertex(position, tex_coords)

\* (0..=columns).map(..): the vertices of row r, from column c on
RECURSIVE PlaneRow(_, _, _, _, _, _)
PlaneRow(width, height, rows, columns, r, c) ==
    IF c > columns THEN <<>>
    ELSE <<PlaneVertex(width, height, rows, columns, r, c)>>
         \o PlaneRow(width, height, rows, columns, r, c + 1)

\* (0..=rows).flat_map(..): the vertices of the rows from r on
RECURSIVE PlaneVertices(_, _, _, _, _)
PlaneVertices(width, height, rows, columns, r) ==
    IF r > rows THEN <<>>
    ELSE PlaneRow(width, height, rows, columns, r, 0)
         \o PlaneVertices(width, height, rows, columns, r + 1)

\* the indices of a quad, with its second triangle left out
QuadIndices_one_triangle(columns, r, c) ==
    LET row_len == columns + 1
    IN  <<r * row_len + c, (r + 1) * row_len + c, (r + 1) * row_len + c + 1>>

\* the indices of a quad, with the corners of both triangles in the other order
QuadIndices_clockwise(columns, r, c) ==
    LET row_len == columns + 1
    IN  <<r * row_len + c, (r + 1) * row_len + c + 1, (r + 1) * row_len + c,
          r * row_len + c, r * row_len + c + 1, (r + 1) * row_len + c + 1>>

\* the indices of a quad, with its first triangle in the place of the second
QuadIndices_first_triangle_twice(columns, r, c) ==
    LET row_len == columns + 1
    IN  <<r * row_len + c, (r + 1) * row_len + c, (r + 1) * row_len + c + 1,
          r * row_len + c, (r + 1) * row_len + c, (r + 1) * row_len + c + 1>>

\* the six indices of the quad of row r and column c
QuadIndices(columns, r, c) ==
    LET row_len == columns + 1
    IN  <<r * row_len + c, (r + 1) * row_len + c, (r + 1) * row_len + c + 1,
          r * row_len + c, (r + 1) * row_len + c + 1, r * row_len + c + 1>>

\* (0..columns).flat_map(..): the indices of the quads of row r, from column c on
RECURSIVE PlaneRowIndices(_, _, _)
PlaneRowIndices(columns, r, c) ==
    IF c >= columns THEN <<>>
    ELSE QuadIndices(columns, r, c) \o PlaneRowIndices(columns, r, c + 1)

\* (0..rows).flat_map(..): the indices of the rows from r on
RECURSIVE PlaneIndices(_, _, _)
PlaneIndices(rows, columns, r) ==
    IF r >= rows THEN <<>>
    ELSE PlaneRowIndices(columns, r, 0) \o PlaneIndices(rows, columns, r + 1)

\* the vertex v with the tangent and bitangent of one more triangle added
AddTangent(v, tangent, bitangent, nan) ==
    [v EXCEPT !.tangent = VAdd(tangent, @), !.bitangent = VAdd(bitangent, @),
              !.tb_nan = @ \/ nan]

\* one turn of the loop over indices.chunks(3), for the triangle at k (from 1):
\* acc holds the vertices and triangles_included
TriangleStep(acc, indices, k) ==
    LET i0 == indices[k] + 1
        i1 == indices[k + 1] + 1
        i2 == indices[k + 2] + 1
        v0 == acc.vertices[i0]
        v1 == acc.vertices[i1]
        v2 == acc.vertices[i2]
        delta_pos1 == VSub(v1.position, v0.position)
        delta_pos2 == VSub(v2.position, v0.position)
        delta_uv1 == <<v1.tex_coords[1] - v0.tex_coords[1],
                       v1.tex_coords[2] - v0.tex_coords[2]>>
        delta_uv2 == <<v2.tex_coords[1] - v0.tex_coords[1],
                       v2.tex_coords[2] - v0.tex_coords[2]>>
        det == FMul(delta_uv1[1], delta_uv2[2]) - FMul(delta_uv1[2], delta_uv2[1])
        nan == (det = 0)
        rr == IF nan THEN 0 ELSE FDiv(Q, det)
        tangent == VScale(VSub(VScale(delta_pos1, delta_uv2[2]),
                               VScale(delta_pos2, delta_uv1[2])), rr)
        bitangent == VScale(VSub(VScale(delta_pos2, delta_uv1[1]),
                                 VScale(delta_pos1, delta_uv2[1])), -rr)
        a0 == [acc.vertices EXCEPT ![i0] = AddTangent(@, tangent, bitangent, nan)]
        a1 == [a0 EXCEPT ![i1] = AddTangent(@, tangent, bitangent, nan)]
        a2 == [a1 EXCEPT ![i2] = AddTangent(@, tangent, bitangent, nan)]
        n0 == [acc.triangles_included EXCEPT ![i0] = @ + 1]
        n1 == [n0 EXCEPT ![i1] = @ + 1]
        n2 == [n1 EXCEPT ![i2] = @ + 1]
    IN  [vertices |-> a2, triangles_included |-> n2]

\* the loop over indices.chunks(3), from the triangle at k on (a mesh without
\* vertices has no triangle; the test has the sums of a turn computed before
\* the next turn starts)
RECURSIVE TriangleLoop(_, _, _)
TriangleLoop(acc, indices, k) ==
    IF k + 2 > Len(indices) \/ Len(acc.vertices) = 0 THEN acc
    ELSE TriangleLoop(TriangleStep(acc, indices, k), indices, k + 3)

\* the sums left as they are
AverageTangent_missing(v, n) == v

\* the average: the sums times 1.0 / n, not finite for n = 0
AverageTangent(v, n) ==
    IF n = 0 THEN [v EXCEPT !.tb_nan = TRUE]
    ELSE LET denom == FDiv(Q, n * Q)
         IN  [v EXCEPT !.tangent = VScale(@, denom), !.bitangent = VScale(@, denom)]

calculate_tangents_bitangents(vertices, indices) ==
    LET summed == TriangleLoop([vertices |-> vertices,
                                triangles_included |-> [i \in DOMAIN vertices |-> 0]],
                               indices, 1)
    IN  [i \in DOMAIN vertices |->
            AverageTangent(summed.vertices[i], summed.triangles_included[i])]

\* Geometry::plane
plane(width, height, rows, columns) ==
    LET vertices == PlaneVertices(width, height, rows, columns, 0)
        indices == PlaneIndices(rows, columns, 0)
    IN  [vertices |-> calculate_tangents_bitangents(vertices, indices),
         indices |-> indices]

\* Quaternion::from_angle_x(angle).rotate_vector(v)
RotateX(v, angle) ==
    <<v[1], FMul(v[2], Cos(angle)) - FMul(v[3], Sin(angle)),
      FMul(v[2], Sin(angle)) + FMul(v[3], Cos(angle))>>

\* Quaternion::from_angle_z(angle).rotate_vector(v)
RotateZ(v, angle) ==
    <<FMul(v[1], Cos(angle)) - FMul(v[2], Sin(angle)),
      FMul(v[1], Sin(angle)) + FMul(v[2], Cos(angle)), v[3]>>

Rotate(v, axis, angle) == IF axis = "x" THEN RotateX(v, angle) ELSE RotateZ(v, angle)

\* Geometry::rotate, about the x or the z axis
rotate(g, axis, angle) ==
    [g EXCEPT !.vertices =
        [i \in DOMAIN g.vertices |->
            [g.vertices[i] EXCEPT !.position = Rotate(@, axis, angle),
                                  !.normal = Rotate(@, axis, angle),
                                  !.tangent = Rotate(@, axis, angle),
                                  !.bitangent = Rotate(@, axis, angle)]]]

\* Geometry::transpose
transpose(g, vector) ==
    [g EXCEPT !.vertices =
        [i \in DOMAIN g.vertices |-> [g.vertices[i] EXCEPT !.position = VAdd(@, vector)]]]

\* indices.iter().map(|i| i + offset)
OffsetIndices(indices, offset) == [i \in DOMAIN indices |-> indices[i] + offset]

\* offsets that give the last two faces the same block
CubeFaceOffsets_repeated == <<0, 4, 8, 12, 16, 16>>

\* what cube adds to the indices of its faces: top, bottom, front, back, right, left
CubeFaceOffsets == <<0, 4, 8, 12, 16, 20>>

\* Geometry::cube, given its three planes
CubeOf(top0, front0, right0, w, h, l) ==
    LET top == transpose(top0, <<0, h, 0>>)
        bottom == transpose(rotate(top0, "x", Deg(180)), <<0, -h, 0>>)
        front == transpose(rotate(front0, "x", Deg(-90)), <<0, 0, -l>>)
        back == transpose(rotate(front0, "x", Deg(90)), <<0, 0, l>>)
        right == transpose(rotate(right0, "z", Deg(-90)), <<w, 0, 0>>)
        left == transpose(rotate(right0, "z", Deg(90)), <<-w, 0, 0>>)
    IN  [vertices |-> top.vertices \o bottom.vertices \o front.vertices
                      \o back.vertices \o right.vertices \o left.vertices,
         indices |-> OffsetIndices(top.indices, CubeFaceOffsets[1])
                     \o OffsetIndices(bottom.indices, CubeFaceOffsets[2])
                     \o OffsetIndices(front.indices, CubeFaceOffsets[3])
                     \o OffsetIndices(back.indices, CubeFaceOffsets[4])
                     \o OffsetIndices(right.indices, CubeFaceOffsets[5])
                     \o OffsetIndices(left.indices, CubeFaceOffsets[6])]

\* Geometry::cube
cube(width, height, length) ==
    CubeOf(plane(width, length, 1, 1), plane(width, height, 1, 1),
           plane(height, length, 1, 1),
           FDiv(width, 2 * Q), FDiv(height, 2 * Q), FDiv(length, 2 * Q))

\* the rows and columns of a plane are bounded
MaxGrid == 3

\* the extents tried
SampleWidths == {Q, 2 * Q, 5 * Q}
SampleHeights == {Q, 3 * Q}
SampleLengths == {Q, 4 * Q}

NoMesh == [vertices |-> <<>>, indices |-> <<>>]

GeoInit ==
    /\ geo_input \in [width : SampleWidths, height : SampleHeights,
                      length : SampleLengths, rows : 1..MaxGrid, columns : 1..MaxGrid]
    /\ geo_call = "none"
    /\ mesh = NoMesh

GeoRest ==
    /\ geo_input = [width |-> Q, height |-> Q, length |-> Q, rows |-> 1, columns |-> 1]
    /\ geo_call = "none"
    /\ mesh = NoMesh

Plane ==
    /\ geo_call = "none"
    /\ mesh' = plane(geo_input.width, geo_input.height, geo_input.rows, geo_input.columns)
    /\ geo_call' = "plane"
    /\ UNCHANGED <<geo_input, light_vars, fps_vars, orbit_vars, frame_vars>>

Cube ==
    /\ geo_call = "none"
    /\ mesh' = cube(geo_input.width, geo_input.height, geo_input.length)
    /\ geo_call' = "cube"
    /\ UNCHANGED <<geo_input, light_vars, fps_vars, orbit_vars, frame_vars>>

GeometryNext == Plane \/ Cube

(***************************************************************************)
(* Specifications                                                          *)
(*   SpecLight:  the light buffer manager is driven, the camera is at rest *)
(*   SpecCamera: a camera of either variant is driven, the lights at rest  *)
(*   SpecFrame:  the frame loop runs: it drives the renderer and its       *)
(*               camera; the light buffer manager is at rest               *)
(*   SpecGeometry: a plane or a cube is generated from arguments chosen    *)
(*               from the sample sets                                      *)
(***************************************************************************)
LightRest ==
    /\ light_buffer = <<>> /\ prev_buffer = <<>> /\ queue_writes = <<>>
    /\ counts = [k \in Kinds |-> 0] /\ synced_counts = counts
    /\ last_call = NoCall /\ validation_error = FALSE /\ light_ops = 0
FpsRest ==
    /\ fps = RendererCamera(Deg(-20))
    /\ fps_prev = fps /\ fps_call = NoCameraCall /\ fps_call_before = NoCameraCall
    /\ fps_ops = 0
    /\ fps_pending = NothingPending /\ fps_consumed = NothingPending
    /\ fps_keys = NoKeys
OrbitRest ==
    /\ orbit = PerspectiveCamera_new(ResetEye, <<0, 0, 0>>, SampleProjection, Q)
    /\ orbit_prev = orbit /\ orbit_init = orbit /\ orbit_call = NoCameraCall
    /\ only_forward = TRUE /\ orbit_ops = 0 /\ orbit_keys = NoKeys

InitLight ==
    /\ LightInit /\ camera_variant = "FPSCamera" /\ FpsRest /\ OrbitRest
    /\ FrameInit /\ GeoRest
InitCamera ==
    /\ LightRest
    /\ \/ FpsInit /\ OrbitRest
       \/ OrbitInit /\ FpsRest
    /\ FrameInit /\ GeoRest
InitFrame ==
    /\ LightRest /\ camera_variant = "FPSCamera" /\ FpsRest /\ OrbitRest
    /\ FrameInit /\ GeoRest
InitGeometry ==
    /\ LightRest /\ camera_variant = "FPSCamera" /\ FpsRest /\ OrbitRest
    /\ FrameInit /\ GeoInit

CameraNext ==
    \/ \E e \in SampleEvents : FpsInput(e)
    \/ \E dt \in SampleDts : FpsUpdate(dt)
    \/ \E e \in SampleEvents : OrbitInput(e)
    \/ \E dt \in SampleDts : OrbitUpdate(dt)

SpecLight == InitLight /\ [][LightNext]_vars
SpecCamera == InitCamera /\ [][CameraNext]_vars
SpecFrame == InitFrame /\ [][FrameNext]_vars
SpecGeometry == InitGeometry /\ [][GeometryNext]_vars

(***************************************************************************)
(* Properties of the light buffer manager (checked under SpecLight)        *)
(***************************************************************************)
\* the words of slot (kind, index) in the layout of LightBuffer
SlotWords(kind, index) ==
    LET first == calculate_buffer_offset(kind, index) \div SizeOfU32
    IN  first .. (first + SizeOfUniform(kind) \div SizeOfU32 - 1)
\* the words of the count header
HeaderWords ==
    LET first == CountsOffset \div SizeOfU32 IN first .. (first + 3)
\* the words on which two buffers differ
ChangedWords(a, b) == {w \in DOMAIN a \cup DOMAIN b : BufAt(a, w) # BufAt(b, w)}
\* the count header as the GPU reads it
Header(buf) ==
    LET first == CountsOffset \div SizeOfU32
    IN  <<BufAt(buf, first), BufAt(buf, first + 1), BufAt(buf, first + 2),
          BufAt(buf, first + 3)>>
UpdateInRange ==
    last_call.op = "update_light_buffer" /\ last_call.index < Capacity(last_call.kind)
UpdateOutOfRange ==
    last_call.op = "update_light_buffer" /\ last_call.index >= Capacity(last_call.kind)

\* the layout is contiguous: next slot of a kind, first slot of the next kind
LayoutContiguous ==
    /\ \A k \in Kinds : \A i \in 0..(Capacity(k) - 2) :
          calculate_buffer_offset(k, i + 1) = calculate_buffer_offset(k, i) + SizeOfUniform(k)
    /\ \A n \in 1..3 :
          calculate_buffer_offset(KindOrder[n + 1], 0)
            = calculate_buffer_offset(KindOrder[n], Capacity(KindOrder[n]) - 1)
              + SizeOfUniform(KindOrder[n])
    /\ calculate_buffer_offset("Ambient", 0) = 0
    /\ calculate_buffer_offset("Directional", 0) = 16
    /\ calculate_buffer_offset("Point", 0) = 336
    /\ calculate_buffer_offset("Spot", 0) = 12624

\* C1: the offset of slot i+1 of a kind is the offset of slot i plus the kind's
\* uniform size, and slot 0 of the next kind starts where the last slot of the
\* previous kind ends (16, 336, 12624 with capacities 1/10/256/256); every write
\* update_light_buffer issues for an index within capacity starts at such an offset.
\* LayoutContiguous reads no variable, so it is evaluated in the initial state.
C1_OffsetsContiguous ==
    /\ light_ops = 0 => LayoutContiguous
    /\ UpdateInRange =>
          LET k == last_call.kind
              i == last_call.index
              n == CHOOSE m \in 1..4 : KindOrder[m] = k
              offset == queue_writes[1].offset
          IN  /\ i > 0 => offset = calculate_buffer_offset(k, i - 1) + SizeOfUniform(k)
              /\ i = 0 /\ n > 1 =>
                    offset = calculate_buffer_offset(KindOrder[n - 1],
                                                     Capacity(KindOrder[n - 1]) - 1)
                             + SizeOfUniform(KindOrder[n - 1])
              /\ i = 0 /\ n = 1 => offset = 0
C1_Witness ==
    /\ last_call.op = "update_light_buffer"
    /\ last_call.kind = "Spot" /\ last_call.index = MAX_SPOT_LIGHTS - 1
    /\ queue_writes[1].offset = 12624 + 255 * 64

\* C2 (as claimed): update_light_buffer with index < capacity issues exactly one
\* write, at calculate_buffer_offset(kind, index), and changes only words of that
\* slot: every other slot and the count header keep their value.
C2_OnlyOwnSlotChanges ==
    UpdateInRange =>
        /\ Len(queue_writes) = 1
        /\ queue_writes[1].offset = calculate_buffer_offset(last_call.kind, last_call.index)
        /\ ByteLen(queue_writes[1].data) < SizeOfLightBuffer
        /\ ChangedWords(prev_buffer, light_buffer)
             \subseteq SlotWords(last_call.kind, last_call.index)

\* C3 (as claimed): update_light_buffer with index >= capacity is rejected: it
\* issues no write and the buffer is as it was.
C3_OutOfRangeRejected ==
    UpdateOutOfRange => queue_writes = <<>> /\ light_buffer = prev_buffer

\* C4: update_light_counts issues one write of four words, the counts in the order
\* ambient, directional, point, spot, at the offset right after the last spot slot
\* (29008); the write ends at the end of the buffer and changes no slot word.
C4_CountsHeaderWrite ==
    last_call.op = "update_light_counts" =>
        /\ Len(queue_writes) = 1
        /\ queue_writes[1].data = <<U32Bits(counts["Ambient"]), U32Bits(counts["Directional"]),
                                    U32Bits(counts["Point"]), U32Bits(counts["Spot"])>>
        /\ ByteLen(queue_writes[1].data) = 16
        /\ queue_writes[1].offset = 29008
        /\ queue_writes[1].offset
             = calculate_buffer_offset("Spot", MAX_SPOT_LIGHTS - 1) + SizeOfUniform("Spot")
        /\ queue_writes[1].offset + ByteLen(queue_writes[1].data) = SizeOfLightBuffer
        /\ ~validation_error
        /\ Header(light_buffer) = queue_writes[1].data
        /\ ChangedWords(prev_buffer, light_buffer) \subseteq HeaderWords
        /\ \A w \in HeaderWords : w >= (12624 + 256 * 64) \div 4
C4_Witness ==
    /\ last_call.op = "update_light_counts"
    /\ counts["Directional"] = 1
    /\ DOMAIN prev_buffer # {}
    /\ Header(light_buffer) = <<U32Bits(0), U32Bits(1), U32Bits(0), U32Bits(0)>>

\* C5 (as claimed): whatever calls were made, the count header the GPU reads holds
\* the counts as they were at the most recent update_light_counts (zero before
\* the first).
C5_HeaderIsLastSyncedCounts ==
    Header(light_buffer) = <<U32Bits(synced_counts["Ambient"]),
                             U32Bits(synced_counts["Directional"]),
                             U32Bits(synced_counts["Point"]),
                             U32Bits(synced_counts["Spot"])>>

\* serialized size in bytes of each implementation of Light
ExpectedSize(ty) ==
    CASE ty = "BaseLight" -> 16
      [] ty = "DirectionalLight" -> 32
      [] ty = "PointLight" -> 48
      [] ty = "SpotLight" -> 64

\* C6: a serialized light has the size of its slot type: base/ambient 16 bytes,
\* directional 32, point 48, spot 64, the spot uniform being the point uniform of
\* its base followed by direction xyz and cos(cutoff); the camera uniform is 80
\* bytes, the homogeneous position followed by the 4x4 matrix. The cameras are at
\* rest under SpecLight, so their uniforms are serialized in the initial state.
C6_UniformSizes ==
    /\ last_call.op = "update_light_buffer" =>
          LET l == last_call.light
              data == queue_writes[1].data
          IN  /\ ByteLen(data) = ExpectedSize(l.ty)
              /\ l.ty = "BaseLight" => ByteLen(data) = SizeOfUniform("Ambient")
              /\ l.ty = "DirectionalLight" => ByteLen(data) = SizeOfUniform("Directional")
              /\ l.ty = "PointLight" => ByteLen(data) = SizeOfUniform("Point")
              /\ l.ty = "SpotLight" =>
                    /\ ByteLen(data) = SizeOfUniform("Spot")
                    /\ SubSeq(data, 1, 12) = buffer_data(l.base)
                    /\ SubSeq(data, 13, 16)
                         = F32Words(<<l.direction[1], l.direction[2], l.direction[3],
                                      Cos(l.cutoff)>>)
    /\ light_ops = 0 =>
       LET u == FPSCamera_view_proj(fps)
           v == PerspectiveCamera_view_proj(orbit)
       IN  /\ ByteLen(CameraUniformWords(u)) = 80
           /\ ByteLen(CameraUniformWords(v)) = 80
           /\ SizeOfCameraUniform = 80
           /\ SubSeq(CameraUniformWords(u), 1, 4) = F32Words(to_homogeneous(fps.position))
           /\ SubSeq(CameraUniformWords(v), 1, 4) = F32Words(to_homogeneous(orbit.eye))
           /\ ByteLen(SubSeq(CameraUniformWords(u), 5, 20)) = 64
C6_Witness ==
    /\ last_call.op = "update_light_buffer"
    /\ last_call.light.ty = "SpotLight"
    /\ ByteLen(queue_writes[1].data) = 64
    /\ queue_writes[1].data[16] = F32Bits(Q \div 2)

(***************************************************************************)
(* Properties of the cameras (checked under SpecCamera)                    *)
(***************************************************************************)
FpsUpdated == camera_variant = "FPSCamera" /\ fps_call.op = "update"

\* C7: after every FPSCamera::update the pitch lies in
\* [-(pi/2 - 0.0001), pi/2 - 0.0001], whatever it was before.
C7_PitchClamped ==
    FpsUpdated => fps.pitch >= -(FRAC_PI_2 - 1) /\ fps.pitch <= FRAC_PI_2 - 1
C7_Witness ==
    /\ FpsUpdated
    /\ fps_prev.pitch >= -SAFE_FRAC_PI_2 /\ fps_prev.pitch <= SAFE_FRAC_PI_2
    /\ fps_prev.rotate_vertical > 0
    /\ fps.pitch = -SAFE_FRAC_PI_2

\* C8: update leaves rotate_horizontal and rotate_vertical zero, and an update
\* that directly follows an update changes neither yaw nor pitch.
C8_SecondUpdateNoRotation ==
    /\ FpsUpdated => fps.rotate_horizontal = 0 /\ fps.rotate_vertical = 0
    /\ FpsUpdated /\ fps_call_before.op = "update" =>
          fps.yaw = fps_prev.yaw /\ fps.pitch = fps_prev.pitch
C8_Witness ==
    /\ FpsUpdated /\ fps_call_before.op = "update"
    /\ fps_call.dt > 0 /\ fps_call_before.dt > 0
    /\ fps_prev.yaw \notin SampleYaws
    /\ fps.yaw = fps_prev.yaw

\* |target - eye| of the orbit camera
OrbitDistance(c) == Magnitude(VSub(c.target, c.eye))

\* C9 (as claimed): an orbit camera constructed with |target - eye| > 1.0 and
\* driven by forward presses and updates only keeps |target - eye| > 1.0.
C9_ForwardKeepsDistance ==
    camera_variant = "PerspectiveCamera" /\ only_forward /\ ~orbit.eye_nan
        => OrbitDistance(orbit) > Q

FpsPoseKept ==
    /\ fps.position = fps_prev.position
    /\ fps.yaw = fps_prev.yaw
    /\ fps.pitch = fps_prev.pitch
OrbitPoseKept ==
    /\ orbit.eye = orbit_prev.eye
    /\ orbit.eye_nan = orbit_prev.eye_nan
    /\ orbit.target = orbit_prev.target
ResetKey(call) == call.event.ev = "KeyboardInput" /\ call.event.key = "R"

C11_MouseMovesSum ==
    /\ camera_variant = "FPSCamera" =>
          /\ fps.rotate_horizontal = fps_pending.dx
          /\ fps.rotate_vertical = fps_pending.dy
    /\ FpsUpdated =>
          fps.yaw = fps_prev.yaw
                    + RotateBy(fps_consumed.dx, fps_prev.sensitivity, fps_call.dt)

\* C12: scroll holds minus the sum of the scroll events received since the last
\* update; update moves the camera as that total asks, once, and leaves scroll
\* zero; an update that directly follows an update moves as with no scroll at all.
C12_ScrollAccumulatesAndResets ==
    /\ camera_variant = "FPSCamera" => fps.scroll = -fps_pending.scroll
    /\ FpsUpdated =>
          /\ fps.scroll = 0
          /\ fps.position =
                FPSCamera_update([fps_prev EXCEPT !.scroll = -fps_consumed.scroll],
                                 fps_call.dt).position
    /\ FpsUpdated /\ fps_call_before.op = "update" =>
          /\ fps_consumed.scroll = 0
          /\ fps.position =
                FPSCamera_update([fps_prev EXCEPT !.scroll = 0], fps_call.dt).position
C12_Witness ==
    /\ FpsUpdated /\ fps_call.dt > 0
    /\ fps_call_before.op = "input" /\ fps_call_before.event.ev = "MouseScroll"
    /\ fps_consumed.scroll = 2 * fps_call_before.event.scroll
    /\ fps_prev.scroll = -fps_consumed.scroll
    /\ fps.position # fps_prev.position
    /\ fps.scroll = 0

\* C13: with scroll zero, update changes position.y by
\* (amount_up - amount_down) * speed * dt and by nothing else, whatever the yaw,
\* the pitch and the forward, backward, left and right amounts.
C13_HeightOnlyFromUpDown ==
    FpsUpdated /\ fps_prev.scroll = 0 =>
        fps.position[2] = fps_prev.position[2]
            + FMul(FMul(fps_prev.amount_up - fps_prev.amount_down, fps_prev.speed),
                   fps_call.dt)
C13_Witness ==
    /\ FpsUpdated /\ fps_prev.scroll = 0 /\ fps_call.dt > 0
    /\ fps_prev.amount_forward = Q /\ fps_prev.amount_backward = 0
    /\ fps_prev.yaw = Deg(30) /\ fps_prev.pitch = Deg(-20)
    /\ fps.position[1] # fps_prev.position[1]
    /\ fps.position[3] # fps_prev.position[3]
    /\ fps.position[2] = fps_prev.position[2]

\* the movement intent i of an FPS camera, and of an orbit camera
FpsIntent(c, i) ==
    CASE i = "forward" -> c.amount_forward
      [] i = "backward" -> c.amount_backward
      [] i = "left" -> c.amount_left
      [] i = "right" -> c.amount_right
      [] i = "up" -> c.amount_up
      [] i = "down" -> c.amount_down
OrbitIntent(c, i) ==
    CASE i = "forward" -> c.is_forward_pressed
      [] i = "backward" -> c.is_backward_pressed
      [] i = "left" -> c.is_left_pressed
      [] i = "right" -> c.is_right_pressed
      [] i = "up" -> c.is_up_pressed
      [] i = "down" -> c.is_down_pressed

\* C14: each movement intent is 1/true when the most recent event on a key bound to
\* it was a press and 0/false otherwise, and a key event changes no intent but the
\* one its key is bound to.
C14_IntentsFollowKeys ==
    /\ camera_variant = "FPSCamera" =>
          /\ \A i \in Intents :
                FpsIntent(fps, i) = IF fps_keys[i] = "Pressed" THEN Q ELSE 0
          /\ fps_call.op = "input" /\ fps_call.event.ev = "KeyboardInput" =>
                \A i \in Intents \ {FpsBinding(fps_call.event.key)} :
                    FpsIntent(fps, i) = FpsIntent(fps_prev, i)
    /\ camera_variant = "PerspectiveCamera" =>
          /\ \A i \in Intents : OrbitIntent(orbit, i) = (orbit_keys[i] = "Pressed")
          /\ orbit_call.op = "input" /\ orbit_call.event.ev = "KeyboardInput" =>
                \A i \in Intents \ {OrbitBinding(orbit_call.event.key)} :
                    OrbitIntent(orbit, i) = OrbitIntent(orbit_prev, i)
C14_Witness ==
    /\ camera_variant = "FPSCamera"
    /\ fps_call.op = "input" /\ fps_call.event = KeyboardInput("Released", "Up")
    /\ fps_call_before.op = "input"
    /\ fps_call_before.event = KeyboardInput("Pressed", "W")
    /\ fps_prev.amount_forward = Q /\ fps.amount_forward = 0
    /\ fps.amount_down = Q /\ fps_keys["down"] = "Pressed"

(***************************************************************************)
(* Properties of the frame loop and the renderer (checked under SpecFrame) *)
(***************************************************************************)
ResizeEvent == frame_call.event.name \in {"Resized", "ScaleFactorChanged"}
Redrawn == frame_call.event.name = "RedrawRequested"
\* the result of render() in the most recent redraw, and in the one before it
LastOutcome == IF frame_outcomes = <<>> THEN "none" ELSE frame_outcomes[Len(frame_outcomes)]
OutcomeBefore ==
    IF Len(frame_outcomes) < 2 THEN "none" ELSE frame_outcomes[Len(frame_outcomes) - 1]

\* C15: a resize to a size with a zero width or height changes neither renderer.size
\* nor the surface configuration nor the projection aspect; so the size stays
\* positive in both dimensions and the aspect is width / height > 0.
C15_ZeroResizeIsNoOp ==
    /\ ResizeEvent /\ (frame_call.event.new_size.width = 0
                        \/ frame_call.event.new_size.height = 0) =>
          /\ renderer.size = renderer_prev.size
          /\ renderer.config = renderer_prev.config
          /\ renderer.surface = renderer_prev.surface
          /\ fps.projection.aspect = aspect_prev
          /\ frame_call.ops = <<"resize">>
    /\ renderer.size.width > 0 /\ renderer.size.height > 0
    /\ renderer.config = renderer.size /\ renderer.surface = renderer.size
    /\ fps.projection.aspect = FDiv(renderer.size.width * Q, renderer.size.height * Q)
    /\ fps.projection.aspect > 0
C15_Witness ==
    /\ frame_call.event.name = "Resized"
    /\ frame_call.event.new_size = PhysicalSize(1920, 0)
    /\ renderer.size = PhysicalSize(600, 800)
    /\ renderer_prev.size = PhysicalSize(600, 800)
    /\ fps.projection.aspect = (3 * Q) \div 4

\* C16: the handler of a redraw calls update and then render, in that order and
\* next to each other; render is called nowhere else, and an event handed to the
\* camera's input is handled in a call of its own, between two redraws.
C16_UpdateThenRender ==
    /\ Redrawn =>
          /\ Len(frame_call.ops) >= 2
          /\ frame_call.ops[1] = "update" /\ frame_call.ops[2] = "render"
          /\ fps_call = [op |-> "update", dt |-> frame_call.event.dt]
    /\ \A i \in DOMAIN frame_call.ops :
          /\ frame_call.ops[i] = "render" =>
                Redrawn /\ i > 1 /\ frame_call.ops[i - 1] = "update"
          /\ frame_call.ops[i] = "input" =>
                frame_call.ops = <<"input">> /\ loop_phase = "events"
C16_Witness ==
    /\ Redrawn /\ frame_call.event.result = "Ok"
    /\ frame_call.ops = <<"update", "render", "present">>
    /\ fps_call_before.op = "input" /\ fps_call_before.event.ev = "KeyboardInput"
    /\ fps.position # fps_prev.position

\* C17: a redraw whose render fails with Lost configures the surface again with
\* renderer.size and does not set the control flow to Exit; the loop ends for no
\* other reason than a close request or exhausted memory, and the redraw after a
\* lost one runs update and render again.
C17_LostSurfaceRecovered ==
    /\ Redrawn /\ frame_call.event.result = "Lost" =>
          /\ frame_call.ops = <<"update", "render", "resize", "configure">>
          /\ renderer.size = renderer_prev.size
          /\ renderer.surface = renderer.size
          /\ ~frame_call.exit
    /\ control_flow = "Exit" =>
          \/ exit_by.name = "CloseRequested"
          \/ exit_by.name = "RedrawRequested" /\ exit_by.result = "OutOfMemory"
    /\ loop_phase \in {"exiting", "destroyed"} => control_flow = "Exit"
    /\ Redrawn /\ OutcomeBefore = "Lost" =>
          frame_call.ops[1] = "update" /\ frame_call.ops[2] = "render"
C17_Witness ==
    /\ Redrawn /\ OutcomeBefore = "Lost" /\ LastOutcome = "Ok"
    /\ control_flow = "Poll"
    /\ frame_call.ops = <<"update", "render", "present">>

GridVertex(columns, r, c) == mesh.vertices[r * (columns + 1) + c + 1]

\* C19: for rows >= 1 and cols >= 1, plane(w, h, rows, cols) returns exactly
\* (rows+1)*(cols+1) vertices in row-major order (the vertices of a row follow
\* each other with x growing and z the same, and the rows follow each other with
\* z growing), exactly 6*rows*cols indices, two triangles for every quad, and
\* every index is below the number of vertices.
C19_PlaneGrid ==
    geo_call = "plane" =>
        LET rows == geo_input.rows
            columns == geo_input.columns
        IN  /\ Len(mesh.vertices) = (rows + 1) * (columns + 1)
            /\ \A r \in 0..rows : \A c \in 0..(columns - 1) :
                   /\ GridVertex(columns, r, c).position[1]
                        < GridVertex(columns, r, c + 1).position[1]
                   /\ GridVertex(columns, r, c).position[3]
                        = GridVertex(columns, r, c + 1).position[3]
            /\ \A r \in 0..(rows - 1) : \A c \in 0..columns :
                   /\ GridVertex(columns, r, c).position[3]
                        < GridVertex(columns, r + 1, c).position[3]
                   /\ GridVertex(columns, r, c).position[1]
                        = GridVertex(columns, r + 1, c).position[1]
            /\ Len(mesh.indices) = 6 * rows * columns
            /\ \A i \in DOMAIN mesh.indices :
                   mesh.indices[i] \in 0..(Len(mesh.vertices) - 1)

\* a plane of 2 rows and 3 columns was generated: 12 vertices and 36 indices
C19_Witness ==
    /\ geo_call = "plane"
    /\ geo_input.rows = 2 /\ geo_input.columns = 3
    /\ Len(mesh.vertices) = 12
    /\ Len(mesh.indices) = 36

\* C20: cube returns exactly 24 vertices and 36 indices, and for every face f
\* in 0..5 the six indices of the face (at positions 6f..6f+5 of the index
\* list, counted from 0) all lie in the block 4f..4f+3 of the face's vertices.
C20_CubeFaceBlocks ==
    geo_call = "cube" =>
        /\ Len(mesh.vertices) = 24
        /\ Len(mesh.indices) = 36
        /\ \A f \in 0..5 : \A j \in 1..6 :
               mesh.indices[6 * f + j] \in (4 * f)..(4 * f + 3)

\* a cube with three different extents was generated, and its last face uses
\* the last vertex
C20_Witness ==
    /\ geo_call = "cube"
    /\ geo_input.width = 2 * Q /\ geo_input.height = 3 * Q /\ geo_input.length = 4 * Q
    /\ \E j \in 31..36 : mesh.indices[j] = 23

\* the position of the vertex that index i (from 1) of the index list refers to
IndexedPosition(i) == mesh.vertices[mesh.indices[i] + 1].position

\* the normal of the triangle at positions k, k+1, k+2 of the index list by the
\* right-hand rule: it points to the side from which the triangle is seen
\* counter-clockwise
TriangleNormal(k) ==
    VCross(VSub(IndexedPosition(k + 1), IndexedPosition(k)),
           VSub(IndexedPosition(k + 2), IndexedPosition(k)))

UnitPlane == geo_call = "plane" /\ geo_input.rows = 1 /\ geo_input.columns = 1

\* C21: plane(w, l, 1, 1) returns exactly 4 vertices whose positions are the
\* four points (+-w/2, 0, +-l/2), and exactly 6 indices forming 2 triangles,
\* both counter-clockwise when seen from +y, the side of the normal.
C21_UnitPlaneCorners ==
    UnitPlane =>
        LET w == FDiv(geo_input.width, 2 * Q)
            l == FDiv(geo_input.height, 2 * Q)
        IN  /\ Len(mesh.vertices) = 4
            /\ {mesh.vertices[i].position : i \in 1..4}
                 = {<<x, 0, z>> : x \in {-w, w}, z \in {-l, l}}
            /\ Cardinality({mesh.vertices[i].position : i \in 1..4}) = 4
            /\ Len(mesh.indices) = 6
            /\ \A k \in {1, 4} :
                   /\ TriangleNormal(k)[2] > 0
                   /\ TriangleNormal(k)[1] = 0 /\ TriangleNormal(k)[3] = 0

\* a 1 x 1 plane of width 5 and length 3 was generated
C21_Witness ==
    /\ UnitPlane
    /\ geo_input.width = 5 * Q /\ geo_input.height = 3 * Q
    /\ \E i \in 1..4 : mesh.vertices[i].position = <<2500, 0, -1500>>

\* the number of triangles of the index list that vertex v (from 0) is a corner of
IncidentTriangles(v) ==
    Cardinality({k \in 1..(Len(mesh.indices) \div 3) :
                    v \in {mesh.indices[3 * k - 2], mesh.indices[3 * k - 1],
                           mesh.indices[3 * k]}})

\* C22: for plane(w, h, 1, 1) the final tangents of the four corner vertices
\* are finite and pairwise parallel (cross product zero), and each is the sum
\* of the tangents of its incident triangles, every one of which is w along x,
\* times 1 / its incident-triangle count.
C22_QuadTangentsParallel ==
    UnitPlane =>
        /\ \A i \in 1..4 : ~mesh.vertices[i].tb_nan
        /\ \A i, j \in 1..4 :
               VCross(mesh.vertices[i].tangent, mesh.vertices[j].tangent) = <<0, 0, 0>>
        /\ \A i \in 1..4 :
               LET n == IncidentTriangles(i - 1)
               IN  /\ n > 0
                   /\ mesh.vertices[i].tangent
                        = VScale(VScale(<<geo_input.width, 0, 0>>, n * Q), FDiv(Q, n * Q))

\* a 1 x 1 plane was generated in which a corner lies in two triangles and
\* another in one, and the tangents are not zero
C22_Witness ==
    /\ UnitPlane
    /\ IncidentTriangles(0) = 2 /\ IncidentTriangles(1) = 1
    /\ geo_input.width = 2 * Q
    /\ \A i \in 1..4 : mesh.vertices[i].tangent = <<2 * Q, 0, 0>>

\* the number of triangles that meet at the vertex of row r and column c of a
\* grid of rows x columns quads, each cut along the diagonal from its first
\* corner to its last
ExpectedIncident(rows, columns, r, c) ==
    LET on_row_border == r \in {0, rows}
        on_column_border == c \in {0, columns}
    IN  IF on_row_border /\ on_column_border
        THEN IF (r = 0) = (c = 0) THEN 2 ELSE 1
        ELSE IF on_row_border \/ on_column_border THEN 3 ELSE 6

\* C28: in every plane with rows >= 1 and cols >= 1 every vertex is a corner of
\* at least one triangle of the index list (1 or 2 at the corners, 3 on the
\* border, 6 inside), so the divisor of the averages is never zero and the
\* tangents and bitangents are finite.
C28_EveryVertexInATriangle ==
    geo_call = "plane" =>
        \A r \in 0..geo_input.rows : \A c \in 0..geo_input.columns :
            LET v == r * (geo_input.columns + 1) + c
            IN  /\ IncidentTriangles(v) >= 1
                /\ IncidentTriangles(v)
                     = ExpectedIncident(geo_input.rows, geo_input.columns, r, c)
                /\ ~mesh.vertices[v + 1].tb_nan

\* a plane of 3 x 3 quads was generated: a vertex inside lies in 6 triangles,
\* one on the border in 3, the corners in 2 and 1
C28_Witness ==
    /\ geo_call = "plane"
    /\ geo_input.rows = 3 /\ geo_input.columns = 3
    /\ IncidentTriangles(5) = 6
    /\ IncidentTriangles(1) = 3
    /\ IncidentTriangles(0) = 2
    /\ IncidentTriangles(3) = 1

(***************************************************************************)
(* Further properties of the cameras (checked under SpecCamera)            *)
(***************************************************************************)
\* the orbit camera was just updated from a finite pose
OrbitUpdated ==
    /\ camera_variant = "PerspectiveCamera"
    /\ orbit_call.op = "update"
    /\ ~orbit_prev.eye_nan

\* the eye that update(dt) gives the camera c when only the keys of `pressed`
\* (of right, left, up, down) are held
EyeWithOnly(c, pressed, dt) ==
    PerspectiveCamera_update(
        [c EXCEPT !.is_forward_pressed = FALSE, !.is_backward_pressed = FALSE,
                  !.is_right_pressed = "right" \in pressed,
                  !.is_left_pressed = "left" \in pressed,
                  !.is_up_pressed = "up" \in pressed,
                  !.is_down_pressed = "down" \in pressed], dt).eye

\* C23 (as claimed): in one update every step of right, left, up, down builds
\* on the eye the earlier steps left: with right and up held together, and
\* right alone moving the eye, the final eye is not the eye that up alone gives.
C23_StepsBuildOnEachOther ==
    (/\ OrbitUpdated
     /\ orbit_prev.is_right_pressed /\ orbit_prev.is_up_pressed
     /\ ~orbit_prev.is_left_pressed /\ ~orbit_prev.is_down_pressed
     /\ ~orbit_prev.is_forward_pressed /\ ~orbit_prev.is_backward_pressed
     /\ EyeWithOnly(orbit_prev, {"right"}, orbit_call.dt) # orbit_prev.eye)
        => orbit.eye # EyeWithOnly(orbit_prev, {"up"}, orbit_call.dt)

\* the rounding of the distance after a turn: every component of the
\* normalized vector is off by less than one unit of 1/Q, and is multiplied by
\* the distance
DistanceTolerance(c) == 2 * (OrbitDistance(c) \div Q + 1)

C25_ScrollAlongLineOfSight ==
    (FpsUpdated /\ fps_prev.scroll # 0 /\ fps_call.dt > 0) =>
        LET scrollward == Scrollward(Sin(fps_prev.yaw), Cos(fps_prev.yaw),
                                     Sin(fps_prev.pitch), Cos(fps_prev.pitch))
            view == ViewDirection(fps_prev.yaw, fps_prev.pitch)
        IN  \A i \in 1..3 : Abs(scrollward[i] - view[i]) <= 2

(***************************************************************************)
(* Further properties of the light buffer manager (checked under SpecLight)*)
(***************************************************************************)
\* C26 (as claimed): for every kind and light that update_light_buffer accepts
\* and every index below the capacity of the kind, the bytes written are as
\* many as a slot of the kind holds, so the write [offset, offset + len) stays
\* inside the slot (kind, index).
C26_WriteFillsOwnSlot ==
    UpdateInRange =>
        LET slot == calculate_buffer_offset(last_call.kind, last_call.index)
            write == queue_writes[1]
        IN  /\ ByteLen(write.data) = SizeOfUniform(last_call.kind)
            /\ write.offset >= slot
            /\ write.offset + ByteLen(write.data) <= slot + SizeOfUniform(last_call.kind)

(***************************************************************************)
(* Further properties of the frame loop (checked under SpecFrame)          *)
(***************************************************************************)
\* C27: in every frame the camera buffer is written in update, after the
\* camera's update(dt) and before render: after every redraw the buffer holds
\* the uniform of the pose and the projection the camera has now, whatever
\* events came between the frames.
C27_CameraUniformIsCurrent ==
    Redrawn =>
        /\ Len(frame_call.ops) >= 2
        /\ frame_call.ops[1] = "update" /\ frame_call.ops[2] = "render"
        /\ fps_call = [op |-> "update", dt |-> frame_call.event.dt]
        /\ renderer.camera_buffer = UniformSource(fps)
        /\ CameraBufferWords(renderer) = CameraUniformWords(FPSCamera_view_proj(fps))

\* a frame was presented in which the camera moved, after a resize had changed
\* the aspect: the buffer was written anew with both
C27_Witness ==
    /\ Redrawn /\ frame_call.event.result = "Ok"
    /\ fps.position # fps_prev.position
    /\ renderer.camera_buffer.position # renderer_prev.camera_buffer.position
    /\ renderer.camera_buffer.projection.aspect
         # renderer_prev.camera_buffer.projection.aspect

====
